---- MODULE Spec2Model ----
(***************************************************************************)
(* A model of project_analyzer.py: the ProjectAnalyzer pipeline that walks *)
(* a project tree, asks a text-generation backend for one summary per      *)
(* file, per directory and for the root, persists every summary in         *)
(* findings.json and in the initial-summaries log, and finally builds the  *)
(* developer guide.                                                        *)
(*                                                                         *)
(* Strings are TLA+ strings (Len, \o and SubSeq act on them), a pathlib    *)
(* Path is the sequence of its parts, a JSON object is a function from     *)
(* its keys, wrapped as [obj |-> f]; a JSON string is wrapped [str |-> s]. *)
(***************************************************************************)
EXTENDS Naturals, Sequences, FiniteSets, TLC

VARIABLES
    projectDir,      \* self.project_dir, a Path (sequence of parts)
    fs,              \* the project tree: set of [rel, kind] nodes
    unreadable,      \* rels of the files whose open()/read() raises
    pc,              \* position of the process in main()
    abortCause,      \* why the process stopped ("" while it runs)
    token,           \* self.token (<<>> until get_iam_token returned)
    findingsDirMade, \* the per-run findings directory exists
    findingsFile,    \* findings.json: NoFile or the document it holds
    summariesFile,   \* initial-summaries_<ts>.txt: NoFile or its blocks
    guideFile,       \* guidebook_<ts>.md: NoFile or its text
    walkStack,       \* os.walk: directories still to be yielded (strings)
    walked,          \* os.walk: directories yielded so far, in order
    curDir,          \* analyze_directory: dir_path being analysed
    pendingFiles,    \* analyze_directory: files still to analyse, in order
    fileSummaries,   \* analyze_directory: file_summaries
    cur,             \* the artifact being persisted: [kind, key, summary]
    rootListing,     \* analyze_root: root_contents, as a set of lines
    reqLog,          \* every generation request issued, in order
    guideRead,       \* generate_developer_guide: what it read, or <<>>
    writeData,       \* _write_findings: the dict being dumped, or <<>>
    probe            \* a function exercised on its own: its calls and results

vars == <<projectDir, fs, unreadable, pc, abortCause, token, findingsDirMade,
          findingsFile, summariesFile, guideFile, walkStack, walked, curDir,
          pendingFiles, fileSummaries, cur, rootListing, reqLog, guideRead,
          writeData, probe>>

(***************************************************************************)
(* Bounds of the model.                                                    *)
(***************************************************************************)
MaxUnreadable == 1
MaxDegraded == 1
MaxProbeDepth == 2
MaxNodes == 5
MaxUpdates == 3

(***************************************************************************)
(* Strings.                                                                *)
(***************************************************************************)
\* Python's `sub in s` on str: scan the start positions left to right.
RECURSIVE FindFrom(_, _, _)
FindFrom(sub, s, i) ==
    IF i + Len(sub) - 1 > Len(s) THEN FALSE
    ELSE IF SubSeq(s, i, i + Len(sub) - 1) = sub THEN TRUE
    ELSE FindFrom(sub, s, i + 1)

StrIn(sub, s) == FindFrom(sub, s, 1)

StartsWith(s, pre) ==
    Len(pre) <= Len(s) /\ SubSeq(s, 1, Len(pre)) = pre

IsSpace(c) == c \in {" ", "\n", "\t"}

\* str.strip(): drop leading, then trailing, whitespace.
RECURSIVE LStrip(_)
LStrip(s) ==
    IF Len(s) > 0 /\ IsSpace(SubSeq(s, 1, 1))
    THEN LStrip(SubSeq(s, 2, Len(s))) ELSE s

RECURSIVE RStrip(_)
RStrip(s) ==
    IF Len(s) > 0 /\ IsSpace(SubSeq(s, Len(s), Len(s)))
    THEN RStrip(SubSeq(s, 1, Len(s) - 1)) ELSE s

Strip(s) == RStrip(LStrip(s))

\* sep.join(seq) on a sequence of strings.
RECURSIVE Join(_, _)
Join(seq, sep) ==
    IF seq = <<>> THEN ""
    ELSE IF Len(seq) = 1 THEN seq[1]
    ELSE seq[1] \o sep \o Join(Tail(seq), sep)

(***************************************************************************)
(* pathlib.                                                                *)
(***************************************************************************)
\* str(Path): "." for the empty path, the anchor "/" glued to the rest.
PathStr(parts) ==
    IF parts = <<>> THEN "."
    ELSE IF parts[1] = "/" THEN "/" \o Join(Tail(parts), "/")
    ELSE Join(parts, "/")

\* The segments of s between "/" separators, empty ones included.
RECURSIVE SplitSlash(_, _)
SplitSlash(s, acc) ==
    IF Len(s) = 0 THEN <<acc>>
    ELSE IF SubSeq(s, 1, 1) = "/"
         THEN <<acc>> \o SplitSlash(SubSeq(s, 2, Len(s)), "")
         ELSE SplitSlash(SubSeq(s, 2, Len(s)), acc \o SubSeq(s, 1, 1))

\* Path(s): split on "/", keep the anchor, drop empty and "." segments.
ParsePath(s) ==
    LET segs == SplitSlash(s, "")
        kept == SelectSeq(segs, LAMBDA x : x # "" /\ x # ".")
    IN  IF StartsWith(s, "/") THEN <<"/">> \o kept ELSE kept

\* path / name
PathDiv(parts, name) == parts \o ParsePath(name)

IsPrefixPath(base, parts) ==
    Len(base) <= Len(parts) /\ SubSeq(parts, 1, Len(base)) = base

\* A relative_to that hands the path back as it came.
RelativeToKeepsBase(parts, base) == parts

\* path.relative_to(base); <<"ValueError">> stands for the raise.
RelativeTo(parts, base) ==
    IF IsPrefixPath(base, parts)
    THEN SubSeq(parts, Len(base) + 1, Len(parts))
    ELSE <<"ValueError">>

\* path.name
PathName(parts) == IF parts = <<>> THEN "" ELSE parts[Len(parts)]

\* os.path.join(top, name)
OsPathJoin(top, name) ==
    IF Len(top) > 0 /\ SubSeq(top, Len(top), Len(top)) = "/"
    THEN top \o name ELSE top \o "/" \o name

(***************************************************************************)
(* The exclusion filter.                                                   *)
(***************************************************************************)
EXCLUSION_LIST ==
    <<".git", ".venv", "node_modules", "__pycache__", ".DS_Store",
      "pb_data", "pb_public", "migrations">>

\* A filter that matches whole path segments instead of substrings.
is_excluded_by_segment(path) ==
    \E i \in 1..Len(EXCLUSION_LIST), k \in 1..Len(path) :
        path[k] = EXCLUSION_LIST[i]

\* A filter that looks at the part of the path below the project directory.
is_excluded_below_root(path) ==
    \E i \in 1..Len(EXCLUSION_LIST) :
        StrIn(EXCLUSION_LIST[i],
              PathStr(SubSeq(path, Len(projectDir) + 1, Len(path))))

is_excluded(path) ==
    \E i \in 1..Len(EXCLUSION_LIST) : StrIn(EXCLUSION_LIST[i], PathStr(path))

(***************************************************************************)
(* The findings document (JSON) and the three output files.                *)
(***************************************************************************)
\* A file of the run: missing, or present with its content.
NoFile == [exists |-> FALSE]
FileOf(content) == [exists |-> TRUE, content |-> content]

JStr(s) == [str |-> s]
JObj(f) == [obj |-> f]
IsObj(v) == DOMAIN v = {"obj"}
EmptyMap == <<>>

\* An assignment that glues the new string to the one already stored.
PutAccumulates(f, k, v) ==
    [x \in (DOMAIN f) \cup {k} |->
        IF x # k THEN f[x]
        ELSE IF k \in DOMAIN f /\ DOMAIN f[k] = {"str"} /\ DOMAIN v = {"str"}
             THEN [str |-> f[k].str \o v.str]
             ELSE v]

\* d[k] = v on a dict.
Put(f, k, v) == [x \in (DOMAIN f) \cup {k} |-> IF x = k THEN v ELSE f[x]]

\* d.get(k, default)
Get(f, k, default) == IF k \in DOMAIN f THEN f[k] ELSE default

JsonError == [err |-> "TypeError"]

initial_structure ==
    JObj([root_summary |-> JStr(""), directories |-> JObj(EmptyMap),
          files |-> JObj(EmptyMap)])

\* A loop that starts every level from an empty dict.
RECURSIVE SetPathDropsSiblings(_, _, _)
SetPathDropsSiblings(current, key, value) ==
    IF Len(key) = 1 THEN JObj(Put(EmptyMap, key[1], JStr(value)))
    ELSE JObj(Put(EmptyMap, key[1],
                  SetPathDropsSiblings(JObj(EmptyMap), Tail(key), value)))

\* The loop of _update_findings: setdefault along key[:-1], then set the
\* leaf.  A level that exists and is no dict makes Python raise.
RECURSIVE SetPath(_, _, _)
SetPath(current, key, value) ==
    IF ~IsObj(current) THEN JsonError
    ELSE IF Len(key) = 1 THEN JObj(Put(current.obj, key[1], JStr(value)))
    ELSE LET sub == Get(current.obj, key[1], JObj(EmptyMap))
             new == SetPath(sub, Tail(key), value)
         IN  IF new = JsonError THEN JsonError
             ELSE JObj(Put(current.obj, key[1], new))

\* An update that keeps real summaries only.
update_findings_skips_placeholder(file, key, value) ==
    IF ~file.exists \/ value = "No response received." THEN file
    ELSE LET new == SetPath(file.content, key, value)
         IN  IF new = JsonError THEN file ELSE FileOf(new)

\* _update_findings(key, value) as a function of findings.json's content:
\* the content it leaves.  A plain (non-tuple) key is the one-part key.
\* Reading a missing file raises and an exception leaves the file as it is.
\* json.dump/json.load of nested dicts of str is lossless, so the file is
\* modelled by the document it holds.
update_findings(file, key, value) ==
    IF ~file.exists THEN file
    ELSE LET new == SetPath(file.content, key, value)
         IN  IF new = JsonError THEN file ELSE FileOf(new)

update_raises(file, key) ==
    ~file.exists \/ SetPath(file.content, key, "") = JsonError

\* A write with mode "w": the file holds the last block only.
write_summaries_truncating(file, content) == FileOf(<<content>>)

\* _append_to_summaries(content): mode "a" creates the file when missing;
\* each write is one block (the content followed by a blank line).
append_to_summaries(file, content) ==
    IF ~file.exists THEN FileOf(<<content>>)
    ELSE FileOf(Append(file.content, content))

\* f.read() of the summaries file
ReadSummaries(file) ==
    IF ~file.exists THEN ""
    ELSE IF file.content = <<>> THEN ""
    ELSE Join(file.content, "\n\n") \o "\n\n"

FilesOf(file) == file.content.obj["files"].obj
DirectoriesOf(file) == file.content.obj["directories"].obj
RootSummaryOf(file) == file.content.obj["root_summary"].str

(***************************************************************************)
(* The generation backend and generate_text.                               *)
(***************************************************************************)
Placeholder == "No response received."

\* What requests.post can do: raise (no connection, timeout) or return a
\* response with a status code and a JSON body.
BackendOutcomes ==
    { [kind |-> "raise"],
      [kind |-> "resp", status_code |-> 500, json |-> EmptyMap],
      [kind |-> "resp", status_code |-> 200, json |-> EmptyMap],
      [kind |-> "resp", status_code |-> 200, json |-> [results |-> <<>>]],
      [kind |-> "resp", status_code |-> 200,
       json |-> [results |-> <<[generated_text |-> " \n"]>>]],
      [kind |-> "resp", status_code |-> 200,
       json |-> [results |-> <<[generated_text |-> " A summary. \n"]>>]] }

\* generate_text on a returned response: <<>> is None, <<s>> the string s.
generate_text(response) ==
    IF response.status_code # 200 THEN <<>>
    ELSE LET results == Get(response.json, "results", <<>>)
         IN  IF results = <<>> THEN <<>>
             ELSE <<Strip(Get(results[1], "generated_text", ""))>>

\* An `or` whose right-hand side is the empty string.
OrDefaultEmpty(x, default) == IF x = <<>> THEN "" ELSE x[1]

\* Python's `x or default` on an optional string.
OrDefault(x, default) ==
    IF x = <<>> THEN default
    ELSE IF x[1] = "" THEN default ELSE x[1]

\* How a request ended, as the request log keeps it.
OutcomeClass(r) ==
    IF r.kind = "raise" THEN "raise"
    ELSE IF r.status_code # 200 THEN "non200"
    ELSE IF OrDefault(generate_text(r), "") = "" THEN "empty"
    ELSE "text"

DegradedCount(log) ==
    Cardinality({i \in 1..Len(log) : log[i].class \in {"non200", "empty"}})

\* The backend outcomes the bound on degraded answers still admits.
Admitted(log) ==
    {r \in BackendOutcomes :
        OutcomeClass(r) \in {"non200", "empty"}
            => DegradedCount(log) < MaxDegraded}

(***************************************************************************)
(* The file system under the project directory.                            *)
(***************************************************************************)
ProjectDirs == { <<"/", "w">>, <<"/", "w.git">> }

FsUniverse ==
    { [rel |-> <<"readme.md">>, kind |-> "file"],
      [rel |-> <<"notes.txt">>, kind |-> "file"],
      [rel |-> <<"src">>, kind |-> "dir"],
      [rel |-> <<"src", "main.x">>, kind |-> "file"],
      [rel |-> <<"src", "my_migrations_notes.txt">>, kind |-> "file"],
      [rel |-> <<"src", ".git">>, kind |-> "dir"],
      [rel |-> <<"src", ".git", "config">>, kind |-> "file"],
      [rel |-> <<"docs">>, kind |-> "dir"],
      [rel |-> <<"docs", "a.bin">>, kind |-> "file"] }

ParentRel(rel) == SubSeq(rel, 1, Len(rel) - 1)

\* A tree: every node below the root has its parent directory in the tree.
IsTree(t) ==
    \A n \in t :
        Len(n.rel) > 1 => [rel |-> ParentRel(n.rel), kind |-> "dir"] \in t

Trees == {t \in SUBSET FsUniverse : IsTree(t) /\ Cardinality(t) <= MaxNodes}

FileRels(t) == {n.rel : n \in {m \in t : m.kind = "file"}}

\* All orders of a finite set.
Perms(S) ==
    {s \in [1..Cardinality(S) -> S] :
        \A i, j \in 1..Cardinality(S) : i # j => s[i] # s[j]}

\* The entries of the directory at absolute path `dir`, as absolute paths.
FsChildren(dir, kind) ==
    {projectDir \o n.rel : n \in
        {m \in fs : /\ m.kind = kind
                    /\ projectDir \o ParentRel(m.rel) = dir}}

\* project_dir.rglob("*"): every path below the project directory.
RGlob == {projectDir \o n.rel : n \in fs}

(***************************************************************************)
(* The process: main() runs ProjectAnalyzer(...), analyze_project() and    *)
(* generate_developer_guide() in this order.  The output files live in the *)
(* script directory, which is taken to lie outside the project tree, so    *)
(* the tree does not change during a run.                                  *)
(***************************************************************************)
NoArtifact == [kind |-> "none"]

Quiet ==
    /\ pc = "start"
    /\ abortCause = ""
    /\ token = <<>>
    /\ findingsDirMade = FALSE
    /\ findingsFile = NoFile
    /\ summariesFile = NoFile
    /\ guideFile = NoFile
    /\ walkStack = <<>>
    /\ walked = <<>>
    /\ curDir = <<>>
    /\ pendingFiles = <<>>
    /\ fileSummaries = <<>>
    /\ cur = NoArtifact
    /\ rootListing = {}
    /\ reqLog = <<>>
    /\ guideRead = <<>>
    /\ writeData = <<>>

Init ==
    /\ projectDir \in ProjectDirs
    /\ fs \in Trees
    /\ unreadable \in {u \in SUBSET FileRels(fs) : Cardinality(u) <= MaxUnreadable}
    /\ probe = <<>>
    /\ Quiet

env == <<projectDir, fs, unreadable, probe>>
walkVars == <<walkStack, walked, curDir, pendingFiles, fileSummaries>>
outFiles == <<findingsDirMade, findingsFile, summariesFile, guideFile>>

\* An uncaught exception ends the process.
Abort(cause) ==
    /\ pc' = "aborted"
    /\ abortCause' = cause

\* A generate_text that sends the request again after a failed attempt.
IssueWithRetry(art, r) ==
    reqLog' = IF OutcomeClass(r) \in {"non200", "empty"}
              THEN reqLog \o <<[art |-> art, class |-> OutcomeClass(r)],
                               [art |-> art, class |-> OutcomeClass(r)]>>
              ELSE Append(reqLog, [art |-> art, class |-> OutcomeClass(r)])

\* One call of generate_text(...) for artifact `art` with backend outcome
\* r: the request log grows by the request and how it ended.
Issue(art, r) ==
    reqLog' = Append(reqLog, [art |-> art, class |-> OutcomeClass(r)])

\* generate_text(...) or "No response received."
Summary(r) == OrDefault(generate_text(r), Placeholder)

\* ProjectAnalyzer.__init__
Construct ==
    /\ pc = "start"
    /\ \E apiKey \in {"", "key"}, endpoint \in {"", "url"},
          iam \in {"HTTPError", "access_token"} :
        IF apiKey = "" \/ endpoint = ""
        THEN /\ Abort("config")
             /\ UNCHANGED <<token, outFiles>>
        ELSE /\ findingsDirMade' = TRUE
             /\ IF iam = "HTTPError"
                THEN /\ Abort("auth")
                     /\ UNCHANGED <<token, findingsFile>>
                ELSE /\ token' = <<iam>>
                     /\ findingsFile' = FileOf(initial_structure)
                     /\ pc' = "constructed"
                     /\ UNCHANGED abortCause
             /\ UNCHANGED <<summariesFile, guideFile>>
    /\ UNCHANGED <<env, writeData, walkVars, cur, rootListing, reqLog, guideRead>>

\* A root pass that files the overview as the artifact of directory ".".
root_key_as_directory == <<"directories", ".">>

\* The key of self._update_findings("root_summary", summary).
root_key == <<"root_summary">>

\* analyze_root up to the summary: list, filter, ask the backend.
root_contents ==
    {PathStr(RelativeTo(f, projectDir)) : f \in {g \in RGlob : ~is_excluded(g)}}

AnalyzeRoot ==
    /\ pc = "constructed"
    /\ rootListing' = root_contents
    /\ \E r \in Admitted(reqLog) :
        /\ Issue(<<"root", ".">>, r)
        /\ IF r.kind = "raise"
           THEN /\ Abort("transport")
                /\ UNCHANGED cur
           ELSE /\ cur' = [kind |-> "root", key |-> root_key,
                           block |-> "Project Overview:\n" \o Summary(r),
                           name |-> "", summary |-> Summary(r)]
                /\ pc' = "update"
                /\ UNCHANGED abortCause
    /\ UNCHANGED <<env, writeData, token, outFiles, walkVars, guideRead>>

\* self._update_findings(key, summary) of analyze_root, analyze_file and
\* analyze_directory.
UpdateFindings ==
    /\ pc = "update"
    /\ IF update_raises(findingsFile, cur.key)
       THEN /\ Abort("store")
            /\ UNCHANGED findingsFile
       ELSE /\ findingsFile' = update_findings(findingsFile, cur.key, cur.summary)
            /\ pc' = "append"
            /\ UNCHANGED abortCause
    /\ UNCHANGED <<env, writeData, token, findingsDirMade, summariesFile, guideFile,
                   walkVars, cur, rootListing, reqLog, guideRead>>

\* self._append_to_summaries(block), and the return to the caller:
\* analyze_project starts os.walk after the root, analyze_directory collects
\* "<name>: <summary>" after a file and returns after its own summary.
AppendToSummaries ==
    /\ pc = "append"
    /\ summariesFile' = append_to_summaries(summariesFile, cur.block)
    /\ cur' = NoArtifact
    /\ IF cur.kind = "root"
       THEN /\ walkStack' = <<PathStr(projectDir)>>
            /\ pc' = "walk"
            /\ UNCHANGED <<walked, curDir, pendingFiles, fileSummaries>>
       ELSE IF cur.kind = "file"
       THEN /\ fileSummaries' = Append(fileSummaries, cur.name \o ": " \o cur.summary)
            /\ pc' = "files"
            /\ UNCHANGED <<walkStack, walked, curDir, pendingFiles>>
       ELSE /\ pc' = "walk"
            /\ UNCHANGED walkVars
    /\ UNCHANGED <<env, writeData, abortCause, token, findingsDirMade, findingsFile,
                   guideFile, rootListing, reqLog, guideRead>>

\* A loop body that leaves os.walk's dirs as they are.
PruneDirsKeepsAll(root, dirs) == dirs

\* The pruning of analyze_project's loop body:
\* dirs[:] = [d for d in dirs if not self.is_excluded(Path(root) / d)]
PruneDirs(root, dirs) ==
    SelectSeq(dirs, LAMBDA d : ~is_excluded(PathDiv(ParsePath(root), d)))

\* One iteration of `for root, dirs, _ in os.walk(self.project_dir)`:
\* os.walk yields the next directory with its subdirectories in the order
\* the file system lists them, the body prunes them, os.walk will descend
\* into those kept, and analyze_directory(Path(root)) is called.  When
\* os.walk is exhausted analyze_project returns.
OsWalk ==
    /\ pc = "walk"
    /\ IF walkStack = <<>>
       THEN /\ pc' = "analysed"
            /\ UNCHANGED walkVars
       ELSE LET root == Head(walkStack)
                names == {PathName(d) : d \in FsChildren(ParsePath(root), "dir")}
            IN  \E dirs \in Perms(names) :
                    /\ walkStack' =
                         [i \in 1..Len(PruneDirs(root, dirs)) |->
                            OsPathJoin(root, PruneDirs(root, dirs)[i])]
                         \o Tail(walkStack)
                    /\ walked' = Append(walked, root)
                    /\ curDir' = ParsePath(root)
                    /\ pc' = "dir"
                    /\ UNCHANGED <<pendingFiles, fileSummaries>>
    /\ UNCHANGED <<env, writeData, abortCause, token, outFiles, cur, rootListing, reqLog,
                   guideRead>>

\* A listing that descends: rglob("*") where the code has iterdir().
ListFilesRecursive(dir_path) ==
    {f \in RGlob : /\ [rel |-> RelativeTo(f, projectDir), kind |-> "file"] \in fs
                   /\ IsPrefixPath(dir_path, f)
                   /\ ~is_excluded(f)}

\* A listing that forgets the exclusion filter.
ListFilesUnfiltered(dir_path) == FsChildren(dir_path, "file")

\* analyze_directory up to its loop: the early returns and the listing
\* files = [f for f in dir_path.iterdir()
\*          if f.is_file() and not self.is_excluded(f)]
ListFiles(dir_path) ==
    {f \in FsChildren(dir_path, "file") : ~is_excluded(f)}

AnalyzeDirectory ==
    /\ pc = "dir"
    /\ IF is_excluded(curDir) \/ ListFiles(curDir) = {}
       THEN /\ pc' = "walk"
            /\ UNCHANGED <<pendingFiles, fileSummaries>>
       ELSE \E files \in Perms(ListFiles(curDir)) :
                /\ pendingFiles' = files
                /\ fileSummaries' = <<>>
                /\ pc' = "files"
    /\ UNCHANGED <<env, writeData, abortCause, token, outFiles, walkStack, walked, curDir,
                   cur, rootListing, reqLog, guideRead>>

\* A key made of the last path segment only.
rel_path_name_only(path) == PathName(path)

\* rel_path of analyze_file and analyze_directory
rel_path(path) == PathStr(RelativeTo(path, projectDir))

\* A read that never fails.
can_read_anything(file_path) == TRUE

\* The try/except of analyze_file: open(file_path).read() returns the text
\* unless it raises UnicodeDecodeError or OSError.
can_read(file_path) == RelativeTo(file_path, projectDir) \notin unreadable

\* One turn of `for file in files`: analyze_file(file) up to its summary.
\* A file that cannot be opened or decoded is skipped.
AnalyzeFile ==
    /\ pc = "files"
    /\ pendingFiles # <<>>
    /\ LET file_path == Head(pendingFiles)
       IN  /\ pendingFiles' = Tail(pendingFiles)
           /\ IF ~can_read(file_path)
              THEN UNCHANGED <<pc, abortCause, cur, reqLog>>
              ELSE \E r \in Admitted(reqLog) :
                     /\ Issue(<<"file", rel_path(file_path)>>, r)
                     /\ IF r.kind = "raise"
                        THEN /\ Abort("transport")
                             /\ UNCHANGED cur
                        ELSE /\ cur' = [kind |-> "file",
                                        key |-> <<"files", rel_path(file_path)>>,
                                        block |-> "File: " \o rel_path(file_path)
                                                  \o "\n" \o Summary(r),
                                        name |-> PathName(file_path),
                                        summary |-> Summary(r)]
                             /\ pc' = "update"
                             /\ UNCHANGED abortCause
    /\ UNCHANGED <<env, writeData, token, outFiles, walkStack, walked, curDir,
                   fileSummaries, rootListing, guideRead>>

\* The end of analyze_directory: `if file_summaries:` one directory-level
\* request, otherwise nothing.
SummariseDirectory ==
    /\ pc = "files"
    /\ pendingFiles = <<>>
    /\ IF fileSummaries = <<>>
       THEN /\ pc' = "walk"
            /\ UNCHANGED <<abortCause, cur, reqLog>>
       ELSE \E r \in Admitted(reqLog) :
              /\ Issue(<<"dir", rel_path(curDir)>>, r)
              /\ IF r.kind = "raise"
                 THEN /\ Abort("transport")
                      /\ UNCHANGED cur
                 ELSE /\ cur' = [kind |-> "dir",
                                 key |-> <<"directories", rel_path(curDir)>>,
                                 block |-> "Directory: " \o rel_path(curDir)
                                           \o "\n" \o Summary(r),
                                 name |-> "", summary |-> Summary(r)]
                      /\ pc' = "update"
                      /\ UNCHANGED abortCause
    /\ UNCHANGED <<env, writeData, token, outFiles, walkVars, rootListing, guideRead>>

\* A guide that falls back to an empty log when the log is missing.
guide_inputs_missing_store_only(findings, summaries) == ~findings.exists

\* The two open(..., "r") of generate_developer_guide: a missing file
\* raises FileNotFoundError.
guide_inputs_missing(findings, summaries) ==
    ~findings.exists \/ ~summaries.exists

\* generate_developer_guide: both files are opened and read first, then one
\* request is issued, then the guide is written.  guideRead keeps the two
\* files as the call found them.
GuideBody ==
    /\ guideRead' = <<[findings |-> findingsFile, summaries |-> summariesFile]>>
    /\ IF guide_inputs_missing(findingsFile, summariesFile)
       THEN /\ Abort("missing_artifact")
            /\ UNCHANGED <<guideFile, reqLog>>
       ELSE /\ \E r \in Admitted(reqLog) :
                 /\ Issue(<<"guide", "">>, r)
                 /\ IF r.kind = "raise"
                    THEN /\ Abort("transport")
                         /\ UNCHANGED guideFile
                    ELSE /\ guideFile' = FileOf(Summary(r))
                         /\ pc' = "guided"
                         /\ UNCHANGED abortCause
    /\ UNCHANGED <<env, writeData, token, findingsDirMade, findingsFile, summariesFile,
                   walkVars, cur, rootListing>>

GenerateDeveloperGuide ==
    /\ pc = "analysed"
    /\ GuideBody

Next ==
    \/ Construct
    \/ AnalyzeRoot
    \/ UpdateFindings
    \/ AppendToSummaries
    \/ OsWalk
    \/ AnalyzeDirectory
    \/ AnalyzeFile
    \/ SummariseDirectory
    \/ GenerateDeveloperGuide

Spec == Init /\ [][Next]_vars

\* main() is one sequential process: as long as a step is possible, one is
\* taken.
SpecLive == Spec /\ WF_vars(Next)

(***************************************************************************)
(* The class used as a library: a caller may ask for the guide right after *)
(* construction, and findings.json may be removed from outside between two *)
(* calls.                                                                  *)
(***************************************************************************)
GuideBeforeAnalysis ==
    /\ pc = "constructed"
    /\ GuideBody

RemoveFindingsFile ==
    /\ pc \in {"constructed", "analysed"}
    /\ findingsFile.exists
    /\ findingsFile' = NoFile
    /\ UNCHANGED <<env, writeData, pc, abortCause, token, findingsDirMade, summariesFile,
                   guideFile, walkVars, cur, rootListing, reqLog, guideRead>>

NextApi ==
    \/ Next
    \/ GuideBeforeAnalysis
    \/ RemoveFindingsFile

SpecApi == Init /\ [][NextApi]_vars

(***************************************************************************)
(* A run that can be cut short.  _write_findings is taken in its two       *)
(* steps: open(self.findings_path, "w") truncates findings.json, json.dump *)
(* and the end of the with block put the new document there.  The process  *)
(* can be killed between any two steps.                                    *)
(***************************************************************************)
\* What is left of findings.json after the truncation and before the dump
\* reached the file: no JSON document.
Unparseable == [err |-> "JSONDecodeError"]

\* _update_findings up to the open(..., "w") of _write_findings.
OpenFindingsForWrite ==
    /\ pc = "update"
    /\ IF update_raises(findingsFile, cur.key)
       THEN /\ Abort("store")
            /\ UNCHANGED <<findingsFile, writeData>>
       ELSE /\ writeData' =
                  <<update_findings(findingsFile, cur.key, cur.summary).content>>
            /\ findingsFile' = FileOf(Unparseable)
            /\ pc' = "write"
            /\ UNCHANGED abortCause
    /\ UNCHANGED <<env, token, findingsDirMade, summariesFile, guideFile,
                   walkVars, cur, rootListing, reqLog, guideRead>>

\* json.dump(data, f, indent=4) and the close of the file.
DumpFindings ==
    /\ pc = "write"
    /\ findingsFile' = FileOf(writeData[1])
    /\ writeData' = <<>>
    /\ pc' = "append"
    /\ UNCHANGED <<env, abortCause, token, findingsDirMade, summariesFile,
                   guideFile, walkVars, cur, rootListing, reqLog, guideRead>>

\* The process is killed (signal, power loss); the files stay as they are.
Kill ==
    /\ pc \notin {"aborted", "guided", "killed"}
    /\ pc' = "killed"
    /\ UNCHANGED <<env, abortCause, token, outFiles, walkVars, cur, rootListing,
                   reqLog, guideRead, writeData>>

NextCrash ==
    \/ Construct
    \/ AnalyzeRoot
    \/ OpenFindingsForWrite
    \/ DumpFindings
    \/ AppendToSummaries
    \/ OsWalk
    \/ AnalyzeDirectory
    \/ AnalyzeFile
    \/ SummariseDirectory
    \/ GenerateDeveloperGuide
    \/ Kill

SpecCrash == Init /\ [][NextCrash]_vars

(***************************************************************************)
(* is_excluded on its own: a path below a project directory is drawn and   *)
(* the filter is applied to it.                                            *)
(***************************************************************************)
ProbeNames ==
    { "src", "main.py", ".git", ".gitignore", "git", "migrations",
      "migrations.go", "my_migrations_notes.txt", "node_modules", "pb",
      "_data", "pb_data.db", "x__pycache__", ".DS_Store", "venv", ".venv" }

RECURSIVE SeqsUpTo(_, _)
SeqsUpTo(S, n) ==
    IF n = 0 THEN {<<>>}
    ELSE SeqsUpTo(S, n - 1) \cup
         {Append(q, x) : q \in {p \in SeqsUpTo(S, n - 1) : Len(p) = n - 1}, x \in S}

ProbePaths ==
    {d \o rel : d \in ProjectDirs \cup {<<>>}, rel \in SeqsUpTo(ProbeNames, MaxProbeDepth)}

InitProbe ==
    /\ projectDir = <<>>
    /\ fs = {}
    /\ unreadable = {}
    /\ Quiet
    /\ probe \in {<<p>> : p \in ProbePaths}

ApplyIsExcluded ==
    /\ Len(probe) = 1
    /\ probe' = <<probe[1], is_excluded(probe[1])>>
    /\ UNCHANGED <<projectDir, fs, unreadable, pc, abortCause, token, outFiles,
                   walkVars, cur, rootListing, reqLog, guideRead, writeData>>

SpecExclusion == InitProbe /\ [][ApplyIsExcluded]_vars

(***************************************************************************)
(* _update_findings on its own: starting from the document that            *)
(* _init_findings_file wrote, a caller updates the store a few times with  *)
(* keys and values of its choice; every call is kept with the document it  *)
(* found and the document _read_findings returns after it.                 *)
(***************************************************************************)
StoreKeys ==
    { <<"root_summary">>, <<"files">>, <<"files", "a.py">>,
      <<"directories", "a/b">>, <<"directories", "a", "b">>,
      <<"extra", "k">>, <<"root_summary", "x">>, <<"files", "a.py", "z">> }

StoreValues == {"x", "y"}

InitStore ==
    /\ projectDir = <<>>
    /\ fs = {}
    /\ unreadable = {}
    /\ pc = "constructed"
    /\ abortCause = ""
    /\ token = <<"access_token">>
    /\ findingsDirMade = TRUE
    /\ findingsFile = FileOf(initial_structure)
    /\ summariesFile = NoFile
    /\ guideFile = NoFile
    /\ walkStack = <<>>
    /\ walked = <<>>
    /\ curDir = <<>>
    /\ pendingFiles = <<>>
    /\ fileSummaries = <<>>
    /\ cur = NoArtifact
    /\ rootListing = {}
    /\ reqLog = <<>>
    /\ guideRead = <<>>
    /\ writeData = <<>>
    /\ probe = <<>>

StoreUpdate ==
    /\ Len(probe) < MaxUpdates
    /\ \E key \in StoreKeys, value \in StoreValues :
        /\ findingsFile' = update_findings(findingsFile, key, value)
        /\ probe' = Append(probe,
                           [key |-> key, value |-> value,
                            before |-> findingsFile.content,
                            raised |-> update_raises(findingsFile, key),
                            after |-> findingsFile'.content])
    /\ UNCHANGED <<projectDir, fs, unreadable, pc, abortCause, token,
                   findingsDirMade, summariesFile, guideFile, walkVars, cur,
                   rootListing, reqLog, guideRead, writeData>>

SpecStore == InitStore /\ [][StoreUpdate]_vars

(***************************************************************************)
(* Vocabulary of the properties.                                           *)
(***************************************************************************)
\* t occurs in s: some slice of s is t.
HasSubstring(s, t) ==
    \E i \in 1..Len(s) : \E j \in i..Len(s) : SubSeq(s, i, j) = t

SomeTokenOccurs(s) ==
    \E i \in 1..Len(EXCLUSION_LIST) : HasSubstring(s, EXCLUSION_LIST[i])

RootNode == [rel |-> <<>>, kind |-> "dir"]
Nodes == fs \cup {RootNode}

\* Every path a project directory of the universe can hold, and the ones of
\* them that is_excluded rejects.
UniversePaths ==
    UNION {UNION {{d \o SubSeq(n.rel, 1, k) : k \in 0..Len(n.rel)} : n \in FsUniverse} :
              d \in ProjectDirs}

ExcludedPaths == {p \in UniversePaths : is_excluded(p)}

\* str(path) of every path of the universe, relative and absolute.
UniverseRels == UNION {{SubSeq(n.rel, 1, k) : k \in 0..Len(n.rel)} : n \in FsUniverse}
RelName == [r \in UniverseRels |-> PathStr(r)]
AbsName == [p \in UniversePaths |-> PathStr(p)]

\* is_excluded of the node at rel below the project directory.
Excluded(rel) == (projectDir \o rel) \in ExcludedPaths

\* The node lies below a directory (the project root included) that the
\* filter excludes.
InsideExcluded(rel) ==
    \E k \in 0..(Len(rel) - 1) : Excluded(SubSeq(rel, 1, k))

\* os.walk reaches the directory: none of the directories on the way from
\* the root down to it is pruned.
NotPruned(rel) ==
    \A k \in 1..Len(rel) : ~Excluded(SubSeq(rel, 1, k))

FileKeys == IF findingsFile.exists THEN DOMAIN FilesOf(findingsFile) ELSE {}
DirectoryKeys ==
    IF findingsFile.exists THEN DOMAIN DirectoriesOf(findingsFile) ELSE {}

FileEntry(k) == FilesOf(findingsFile)[k].str
DirectoryEntry(k) == DirectoriesOf(findingsFile)[k].str

LogBlocks == IF summariesFile.exists THEN summariesFile.content ELSE <<>>

LogLabels == {"File: ", "Directory: "}

\* The first line of the block is the label followed by the path.
Labels(block, label, str) == StartsWith(block, label \o str \o "\n")

\* Some block of the log carries the label with the path.
Labelled(label, str) ==
    \E i \in 1..Len(LogBlocks) : Labels(LogBlocks[i], label, str)

\* os.walk has yielded the directory at rel.
Walked(rel) ==
    \E i \in 1..Len(walked) : walked[i] = AbsName[projectDir \o rel]

AnalysisComplete == pc \in {"analysed", "guided"}

\* The files analyze_project is to summarise, and the directories that
\* hold at least one of them.
SummarisedFiles ==
    {n \in fs : /\ n.kind = "file"
                /\ ~Excluded(n.rel)
                /\ NotPruned(ParentRel(n.rel))
                /\ n.rel \notin unreadable}

SummarisedDirs ==
    {d \in Nodes : /\ d.kind = "dir"
                   /\ NotPruned(d.rel)
                   /\ \E n \in SummarisedFiles : ParentRel(n.rel) = d.rel}

(***************************************************************************)
(* C1: is_excluded(p) is true exactly when some token of the exclusion     *)
(* list occurs as a substring of str(p); it is no match of whole path      *)
(* segments: my_migrations_notes.txt in a directory that is not excluded   *)
(* is excluded.                                                            *)
(***************************************************************************)
C1_ExclusionIsSubstring ==
    Len(probe) = 2 => (probe[2] <=> SomeTokenOccurs(PathStr(probe[1])))

C1_Witness ==
    /\ Len(probe) = 2
    /\ probe[1] = <<"/", "w", "src", "my_migrations_notes.txt">>
    /\ probe[2] = TRUE
    /\ ~is_excluded(<<"/", "w", "src">>)
    /\ \A k \in 1..Len(probe[1]), i \in 1..Len(EXCLUSION_LIST) :
           probe[1][k] # EXCLUSION_LIST[i]

(***************************************************************************)
(* C2: nothing below an excluded directory shows up in a run: no key of    *)
(* files or directories, no label of the summary log and no line of the    *)
(* root listing names a node inside an excluded directory, and os.walk     *)
(* yields no excluded directory and nothing below one.                     *)
(***************************************************************************)
\* The nodes that lie in no excluded directory.
OutsideExcluded == {n \in Nodes : ~InsideExcluded(n.rel)}

\* (outside and names are bound once per state.)
C2_ExcludedSubtreesNeverAppear ==
    \A outside \in {OutsideExcluded} :
    \A names \in {{RelName[n.rel] : n \in outside}} :
        /\ FileKeys \cup DirectoryKeys \subseteq names
        /\ \A i \in 1..Len(LogBlocks), label \in LogLabels :
               StartsWith(LogBlocks[i], label) =>
                   \E str \in names : Labels(LogBlocks[i], label, str)
        /\ rootListing \subseteq names
        /\ \A i \in 1..Len(walked) :
               \E d \in outside : /\ d.kind = "dir"
                                  /\ walked[i] = AbsName[projectDir \o d.rel]
                                  /\ d.rel # <<>> => ~Excluded(d.rel)

C2_Witness ==
    /\ AnalysisComplete
    /\ [rel |-> <<"src", ".git", "config">>, kind |-> "file"] \in fs
    /\ "src" \in DirectoryKeys
    /\ "src/main.x" \in FileKeys
    /\ "src/main.x" \in rootListing
    /\ Walked(<<"src">>)

(***************************************************************************)
(* C3: when analyze_project has returned, the keys of files are exactly    *)
(* the relative paths of the readable, non-excluded files that lie         *)
(* directly in a directory os.walk reached, and the keys of directories    *)
(* are exactly the relative paths of the reached directories in which a    *)
(* file was summarised.                                                    *)
(***************************************************************************)
C3_KeysAreExactlyTheSummarised ==
    AnalysisComplete =>
        /\ FileKeys = {RelName[n.rel] : n \in SummarisedFiles}
        /\ DirectoryKeys = {RelName[d.rel] : d \in SummarisedDirs}

C3_Witness ==
    /\ AnalysisComplete
    /\ fs = { [rel |-> <<"readme.md">>, kind |-> "file"],
              [rel |-> <<"src">>, kind |-> "dir"],
              [rel |-> <<"src", "main.x">>, kind |-> "file"],
              [rel |-> <<"src", ".git">>, kind |-> "dir"],
              [rel |-> <<"src", ".git", "config">>, kind |-> "file"] }
    /\ unreadable = {}
    /\ FileKeys = {"readme.md", "src/main.x"}
    /\ "src" \in DirectoryKeys

(***************************************************************************)
(* C4: at every moment each key of directories is the path of a directory  *)
(* with a non-excluded file directly in it; a directory without such a     *)
(* file gets no entry, no log block and no generation request.             *)
(***************************************************************************)
HasListedFile(rel) ==
    \E n \in fs : /\ n.kind = "file"
                  /\ ParentRel(n.rel) = rel
                  /\ ~Excluded(n.rel)

RequestedArtifacts == {reqLog[i].art : i \in 1..Len(reqLog)}

\* The directories with, and those without, a non-excluded file in them.
\* (Both sets and the requested artifacts are bound once per state.)
C4_DirectoryEntryNeedsAFile ==
    \A dirs \in {{d \in Nodes : d.kind = "dir"}} :
    \A with \in {{d \in dirs : HasListedFile(d.rel)}} :
    \A requested \in {RequestedArtifacts} :
        /\ DirectoryKeys \subseteq {RelName[d.rel] : d \in with}
        /\ \A d \in dirs \ with :
               /\ RelName[d.rel] \notin DirectoryKeys
               /\ ~Labelled("Directory: ", RelName[d.rel])
               /\ <<"dir", RelName[d.rel]>> \notin requested

C4_Witness ==
    /\ AnalysisComplete
    /\ ~Excluded(<<>>)
    /\ Walked(<<"src">>)
    /\ [rel |-> <<"src", "my_migrations_notes.txt">>, kind |-> "file"] \in fs
    /\ ~HasListedFile(<<"src">>)
    /\ "src" \notin DirectoryKeys
    /\ "." \in DirectoryKeys

(***************************************************************************)
(* C5: at every moment each key of files and of directories is the path    *)
(* of a node relative to the project root: it is not absolute and does not *)
(* start with the project directory.                                       *)
(***************************************************************************)
IsRelativeKey(k, kind) ==
    /\ \E n \in Nodes : n.kind = kind /\ RelName[n.rel] = k
    /\ ~StartsWith(k, "/")
    /\ ~StartsWith(k, AbsName[projectDir])

C5_KeysAreRelative ==
    /\ \A k \in FileKeys : IsRelativeKey(k, "file")
    /\ \A k \in DirectoryKeys : IsRelativeKey(k, "dir")

C5_Witness ==
    /\ projectDir = <<"/", "w">>
    /\ "src/main.x" \in FileKeys
    /\ "src" \in DirectoryKeys

(***************************************************************************)
(* C6: when exactly one file-summary request is answered with a            *)
(* non-success status, that file's entry is the placeholder, every other   *)
(* entry is what its own request produced, the key sets are the ones of a  *)
(* run without the failure, and the failure does not stop the run.         *)
(***************************************************************************)
RequestsOf(art) == {i \in 1..Len(reqLog) : reqLog[i].art = art}

\* The texts the backend generates, as generate_text hands them on.
GeneratedTexts ==
    {Strip(r.json.results[1].generated_text) :
        r \in {q \in BackendOutcomes : OutcomeClass(q) = "text"}}

\* The stored summary is what the artifact's own request produced.
FollowsOwnRequest(art, value) ==
    /\ Cardinality(RequestsOf(art)) = 1
    /\ \A i \in RequestsOf(art) :
           IF reqLog[i].class = "text"
           THEN value \in GeneratedTexts /\ value # Placeholder
           ELSE value = Placeholder

FailedFileRequests ==
    {i \in 1..Len(reqLog) :
        reqLog[i].class = "non200" /\ reqLog[i].art[1] = "file"}

FatalCategories == {"config", "auth", "missing_artifact"}

C7_OnlyFatalCategoriesStop ==
    /\ pc = "aborted" => abortCause \in FatalCategories
    /\ \A i \in 1..Len(reqLog) :
           reqLog[i].class # "text" =>
               /\ reqLog[i].art[1] = "file" /\ reqLog[i].art[2] \in FileKeys
                      => FileEntry(reqLog[i].art[2]) = Placeholder
               /\ reqLog[i].art[1] = "dir" /\ reqLog[i].art[2] \in DirectoryKeys
                      => DirectoryEntry(reqLog[i].art[2]) = Placeholder

(***************************************************************************)
(* C8: a directory whose non-excluded files are all unreadable gets no     *)
(* entry under files, no entry under directories and no request, nothing   *)
(* stops, and os.walk still yields every directory that is not pruned.     *)
(***************************************************************************)
ListedFiles(rel) ==
    {n \in fs : /\ n.kind = "file"
                /\ ParentRel(n.rel) = rel
                /\ ~Excluded(n.rel)}

AllUnreadable(rel) ==
    /\ ListedFiles(rel) # {}
    /\ \A n \in ListedFiles(rel) : n.rel \in unreadable

\* (dirs, the requested artifacts and each directory's listing are bound
\* once per state.)
C8_UnreadableDirectoryLeavesNothing ==
    \A dirs \in {{d \in Nodes : d.kind = "dir"}} :
    \A requested \in {RequestedArtifacts} :
    \A d \in dirs :
    \A listed \in {ListedFiles(d.rel)} :
        (listed # {} /\ \A n \in listed : n.rel \in unreadable) =>
            /\ \A n \in listed :
                   /\ RelName[n.rel] \notin FileKeys
                   /\ <<"file", RelName[n.rel]>> \notin requested
            /\ RelName[d.rel] \notin DirectoryKeys
            /\ <<"dir", RelName[d.rel]>> \notin requested
            /\ (pc = "files" /\ curDir = projectDir \o d.rel) => fileSummaries = <<>>
            /\ pc = "aborted" => abortCause \in {"config", "auth", "transport"}
            /\ AnalysisComplete =>
                   /\ \A e \in dirs : Walked(e.rel) <=> NotPruned(e.rel)
                   /\ \A i \in 1..Len(walked) :
                          \E e \in dirs : walked[i] = AbsName[projectDir \o e.rel]

C8_Witness ==
    /\ AnalysisComplete
    /\ AllUnreadable(<<"docs">>)
    /\ \E i, j \in 1..Len(walked) :
           /\ i < j
           /\ walked[i] = "/w/docs"
           /\ walked[j] = "/w/src"
    /\ "src" \in DirectoryKeys
    /\ "docs" \notin DirectoryKeys

(***************************************************************************)
(* C9: when the configuration is missing or the authentication fails in    *)
(* the constructor, the process stops before any traversal and any         *)
(* generation request, and nothing of the run exists: no findings          *)
(* directory, no findings document, no summary log, no guide.              *)
(***************************************************************************)
C9_AbortBeforeAnyOutput ==
    (pc = "aborted" /\ abortCause \in {"config", "auth"}) =>
        /\ walked = <<>>
        /\ reqLog = <<>>
        /\ ~findingsDirMade
        /\ ~findingsFile.exists
        /\ ~summariesFile.exists
        /\ ~guideFile.exists

(***************************************************************************)
(* C10: generate_developer_guide called while findings.json or the summary *)
(* log is missing fails fatally, issues no generation request and writes   *)
(* no guide.                                                               *)
(***************************************************************************)
C10_GuideNeedsBothFiles ==
    \A i \in 1..Len(guideRead) :
        (~guideRead[i].findings.exists \/ ~guideRead[i].summaries.exists) =>
            /\ pc = "aborted"
            /\ abortCause = "missing_artifact"
            /\ ~guideFile.exists
            /\ <<"guide", "">> \notin RequestedArtifacts

C10_Witness ==
    /\ Len(guideRead) = 1
    /\ ~guideRead[1].findings.exists
    /\ guideRead[1].summaries.exists
    /\ pc = "aborted"
    /\ ~guideFile.exists

(***************************************************************************)
(* C11: when the process is killed, at whatever step, every artifact that  *)
(* has a block in the summary log (its _update_findings had returned) is   *)
(* still in findings.json under its key with its summary.                  *)
(***************************************************************************)
Persisted == findingsFile.exists /\ IsObj(findingsFile.content)

BlockIsPersisted(block) ==
    /\ Persisted
    /\ \/ block = "Project Overview:\n" \o RootSummaryOf(findingsFile)
       \/ \E k \in DOMAIN FilesOf(findingsFile) :
              block = "File: " \o k \o "\n" \o FileEntry(k)
       \/ \E k \in DOMAIN DirectoriesOf(findingsFile) :
              block = "Directory: " \o k \o "\n" \o DirectoryEntry(k)

C11_CommittedSurviveKill ==
    pc = "killed" =>
        \A i \in 1..Len(LogBlocks) : BlockIsPersisted(LogBlocks[i])

(***************************************************************************)
(* C12: _update_findings(("directories", "a/b"), "x") on the document of   *)
(* _init_findings_file gives directories = {"a/b": "x"}, files = {},       *)
(* root_summary = "".  For every key whose levels before the last are      *)
(* mappings or absent, the call sets the leaf to the value, makes the      *)
(* levels before it mappings that gained at most the next part of the key, *)
(* and leaves every entry that is not on the key's path as it was.         *)
(***************************************************************************)
Missing == [missing |-> TRUE]

\* The entry of the document under a path of keys.
RECURSIVE Lookup(_, _)
Lookup(v, path) ==
    IF path = <<>> THEN v
    ELSE IF IsObj(v) /\ path[1] \in DOMAIN v.obj
         THEN Lookup(v.obj[path[1]], Tail(path))
         ELSE Missing

StorePaths == UNION {{SubSeq(k, 1, n) : n \in 0..Len(k)} : k \in StoreKeys}

\* Every level of the key before the last is a mapping or absent.
IsKeyPath(doc, key) ==
    \A n \in 0..(Len(key) - 1) :
        Lookup(doc, SubSeq(key, 1, n)) = Missing
            \/ IsObj(Lookup(doc, SubSeq(key, 1, n)))

OffPath(q, key) == ~IsPrefixPath(q, key) /\ ~IsPrefixPath(key, q)

KeysAt(doc, path) ==
    IF IsObj(Lookup(doc, path)) THEN DOMAIN Lookup(doc, path).obj ELSE {}

SetsExactlyTheLeaf(call) ==
    /\ ~call.raised
    /\ Lookup(call.after, call.key) = JStr(call.value)
    /\ \A n \in 0..(Len(call.key) - 1) :
           /\ IsObj(Lookup(call.after, SubSeq(call.key, 1, n)))
           /\ KeysAt(call.after, SubSeq(call.key, 1, n))
                  = KeysAt(call.before, SubSeq(call.key, 1, n)) \cup {call.key[n + 1]}
    /\ \A q \in StorePaths :
           OffPath(q, call.key) => Lookup(call.after, q) = Lookup(call.before, q)

FreshExample ==
    JObj([root_summary |-> JStr(""),
          directories |-> JObj([k \in {"a/b"} |-> JStr("x")]),
          files |-> JObj(EmptyMap)])

C12_UpdateSetsExactlyTheLeaf ==
    /\ \A i \in 1..Len(probe) :
           IsKeyPath(probe[i].before, probe[i].key) => SetsExactlyTheLeaf(probe[i])
    /\ (/\ Len(probe) >= 1
        /\ probe[1].key = <<"directories", "a/b">>
        /\ probe[1].value = "x") => probe[1].after = FreshExample

C12_Witness ==
    /\ Len(probe) = 2
    /\ probe[1].key = <<"directories", "a/b">>
    /\ probe[1].value = "x"
    /\ probe[2].key = <<"directories", "a", "b">>
    /\ probe[2].after # probe[2].before
    /\ Lookup(probe[2].after, <<"directories", "a/b">>) = JStr("x")

(***************************************************************************)
(* C13: two calls of _update_findings in a row with the same key and the   *)
(* same value: the document read after the second call is the document     *)
(* read after the first.                                                   *)
(***************************************************************************)
SameCall(a, b) == a.key = b.key /\ a.value = b.value

C13_UpdateIsIdempotent ==
    \A i \in 1..(Len(probe) - 1) :
        SameCall(probe[i], probe[i + 1]) => probe[i + 1].after = probe[i].after

C13_Witness ==
    /\ Len(probe) = 3
    /\ probe[1].key = <<"files", "a.py">>
    /\ probe[2].key = <<"directories", "a", "b">>
    /\ SameCall(probe[2], probe[3])
    /\ ~probe[3].raised
    /\ probe[2].after # probe[2].before
    /\ probe[3].after = probe[2].after

(***************************************************************************)
(* C14: every step leaves the summary log as it is or puts exactly one     *)
(* block at its end, the blocks before it staying as they were; the i-th   *)
(* block carries the label of the i-th artifact the run produced: Project  *)
(* Overview, File: <path> or Directory: <path>.                            *)
(***************************************************************************)
LabelOf(art) ==
    IF art[1] = "root" THEN "Project Overview:\n"
    ELSE IF art[1] = "file" THEN "File: " \o art[2] \o "\n"
    ELSE IF art[1] = "dir" THEN "Directory: " \o art[2] \o "\n"
    ELSE "?"

\* The artifacts in the order their summaries came back from the backend.
Produced ==
    SelectSeq(reqLog, LAMBDA q : q.class # "raise" /\ q.art[1] # "guide")

LogFollowsProduction ==
    /\ Len(LogBlocks) <= Len(Produced)
    /\ \A i \in 1..Len(LogBlocks) :
           StartsWith(LogBlocks[i], LabelOf(Produced[i].art))

LogBlocksNext == IF summariesFile'.exists THEN summariesFile'.content ELSE <<>>

C14_LogIsAppendOnlyInOrder ==
    [][/\ \/ summariesFile' = summariesFile
          \/ /\ Len(LogBlocksNext) = Len(LogBlocks) + 1
             /\ SubSeq(LogBlocksNext, 1, Len(LogBlocks)) = LogBlocks
       /\ LogFollowsProduction']_vars

C14_Witness ==
    /\ Len(LogBlocks) = 4
    /\ StartsWith(LogBlocks[1], "Project Overview:\n")
    /\ StartsWith(LogBlocks[2], "File: readme.md\n")
    /\ StartsWith(LogBlocks[3], "Directory: .\n")
    /\ StartsWith(LogBlocks[4], "File: src/main.x\n")

(***************************************************************************)
(* C15: the root pass runs once and first: the first request, and no       *)
(* other, is the root request; the first block of the log, and no other,   *)
(* is the Project Overview; root_summary is set before any file or         *)
(* directory artifact is requested or stored, is set when the analysis is  *)
(* complete, and once set it never changes.                                *)
(***************************************************************************)
Overview == "Project Overview:\n"

RootSummarySet == findingsFile.exists /\ RootSummaryOf(findingsFile) # ""

RootOnceAndFirst ==
    /\ \A i \in 1..Len(reqLog) : reqLog[i].art[1] = "root" <=> i = 1
    /\ \A i \in 1..Len(LogBlocks) : StartsWith(LogBlocks[i], Overview) <=> i = 1
    /\ (Len(reqLog) >= 2 \/ FileKeys \cup DirectoryKeys # {}) =>
           /\ RootSummarySet
           /\ Len(LogBlocks) >= 1
           /\ LogBlocks[1] = Overview \o RootSummaryOf(findingsFile)
    /\ AnalysisComplete => RootSummarySet

C15_RootPassOnceAndFirst ==
    [][/\ RootOnceAndFirst'
       /\ RootSummarySet =>
              /\ findingsFile'.exists
              /\ RootSummaryOf(findingsFile') = RootSummaryOf(findingsFile)]_vars

C15_Witness ==
    /\ pc = "guided"
    /\ reqLog[1].class = "non200"
    /\ RootSummaryOf(findingsFile) = Placeholder
    /\ "src/main.x" \in FileKeys
    /\ "src" \in DirectoryKeys
    /\ Len(LogBlocks) >= 3

(***************************************************************************)
(* C16: within a directory the file artifacts come first and the           *)
(* directory artifact last; across directories the artifacts come in the   *)
(* order os.walk visits the directories, a directory before each of its    *)
(* subdirectories.  When the request for a directory artifact is issued,   *)
(* every file artifact of its direct files is stored and logged.           *)
(***************************************************************************)
\* The file and directory artifacts in the order they were produced.
Artifacts == SelectSeq(Produced, LAMBDA q : q.art[1] \in {"file", "dir"})

NodeOf(art) ==
    CHOOSE n \in Nodes : RelName[n.rel] = art[2] /\ n.kind = art[1]

\* The directory whose pass produced the artifact.
ArtDir(art) ==
    IF art[1] = "dir" THEN NodeOf(art).rel ELSE ParentRel(NodeOf(art).rel)

\* The positions at which os.walk yielded the directory.
WalkedAt(d) ==
    {a \in 1..Len(walked) : walked[a] = AbsName[projectDir \o d]}

IsProperPrefix(p, q) == Len(p) < Len(q) /\ IsPrefixPath(p, q)

C16_FilesThenDirectoryTopDown ==
    \A arts \in {Artifacts}, done \in {SummarisedFiles} :
    \A below \in {{d \in Nodes : d.kind = "dir" /\ d.rel # <<>>}} :
    \A dir \in {[i \in 1..Len(arts) |-> ArtDir(arts[i].art)]} :
    \A at \in {[i \in 1..Len(arts) |-> WalkedAt(dir[i])]} :
        /\ \A i \in 1..Len(arts) : at[i] # {}
        /\ \A i, j \in 1..Len(arts) :
               i < j =>
                   /\ \A a \in at[i], b \in at[j] : a <= b
                   /\ dir[i] = dir[j] => arts[i].art[1] = "file"
                   /\ ~IsProperPrefix(dir[j], dir[i])
        /\ \A j \in 1..Len(arts) :
               arts[j].art[1] = "dir" =>
                   \A n \in done :
                       ParentRel(n.rel) = dir[j] =>
                           /\ RelName[n.rel] \in FileKeys
                           /\ Labelled("File: ", RelName[n.rel])
                           /\ \E i \in 1..(j - 1) :
                                  arts[i].art = <<"file", RelName[n.rel]>>
        /\ \A b \in 1..Len(walked) :
               walked[b] # AbsName[projectDir] =>
                   \E d \in below :
                       /\ walked[b] = AbsName[projectDir \o d.rel]
                       /\ \E a \in 1..(b - 1) :
                              walked[a] = AbsName[projectDir \o ParentRel(d.rel)]

C16_Witness ==
    /\ pc = "guided"
    /\ Len(Artifacts) = 5
    /\ Artifacts[1].art[1] = "file" /\ Artifacts[2].art[1] = "file"
    /\ Artifacts[3].art = <<"dir", ".">>
    /\ Artifacts[4].art = <<"file", "src/main.x">>
    /\ Artifacts[5].art = <<"dir", "src">>

(***************************************************************************)
(* C17: a run that got through the constructor reaches the end of          *)
(* generate_developer_guide, whatever the tree and whatever the backend    *)
(* does; the guide is requested only when os.walk is exhausted and every   *)
(* directory that is not pruned was yielded, and findings.json and the     *)
(* log are as the guide builder read them from then on.                    *)
(***************************************************************************)
GuideReadsFinished ==
    (guideRead # <<>> \/ <<"guide", "">> \in RequestedArtifacts) =>
        /\ walkStack = <<>>
        /\ cur = NoArtifact
        /\ \A e \in Nodes :
               (e.kind = "dir" /\ NotPruned(e.rel)) => Walked(e.rel)
        /\ guideRead = <<[findings |-> findingsFile, summaries |-> summariesFile]>>

C17_RunAlwaysCompletes ==
    /\ (pc = "constructed") ~> (pc = "guided")
    /\ []GuideReadsFinished

(***************************************************************************)
(* C18: no artifact is requested twice, failed or not, and a run that      *)
(* reached the end has issued one request for the root, one for every      *)
(* readable non-excluded file of a visited directory, one for every        *)
(* directory with such a file, and one for the guide.                      *)
(***************************************************************************)
C18_EachRequestOnce ==
    /\ \A i, j \in 1..Len(reqLog) : reqLog[i].art = reqLog[j].art => i = j
    /\ pc = "guided" =>
           /\ Len(reqLog) = 1 + Cardinality(SummarisedFiles)
                              + Cardinality(SummarisedDirs) + 1
           /\ \A n \in SummarisedFiles : <<"file", RelName[n.rel]>> \in RequestedArtifacts
           /\ \A d \in SummarisedDirs : <<"dir", RelName[d.rel]>> \in RequestedArtifacts

C18_Witness ==
    /\ pc = "guided"
    /\ Len(reqLog) = 6
    /\ Cardinality(SummarisedFiles) = 2
    /\ Cardinality(SummarisedDirs) = 2
    /\ unreadable # {}
    /\ \E i \in 1..Len(reqLog) :
           reqLog[i].class = "non200" /\ reqLog[i].art[1] = "file"

(***************************************************************************)
(* C19: every artifact with a block in the log is in findings.json under   *)
(* its key with the same summary; findings.json holds at most one artifact *)
(* that has no block yet; when analyze_project has returned, blocks and    *)
(* entries (root_summary, files, directories) match one to one.            *)
(***************************************************************************)
StoredCount ==
    IF ~findingsFile.exists THEN 0
    ELSE (IF RootSummaryOf(findingsFile) # "" THEN 1 ELSE 0)
         + Cardinality(FileKeys) + Cardinality(DirectoryKeys)

HasBlock(text) == \E i \in 1..Len(LogBlocks) : LogBlocks[i] = text

EveryEntryLogged ==
    /\ HasBlock(Overview \o RootSummaryOf(findingsFile))
    /\ \A k \in FileKeys : HasBlock("File: " \o k \o "\n" \o FileEntry(k))
    /\ \A k \in DirectoryKeys :
           HasBlock("Directory: " \o k \o "\n" \o DirectoryEntry(k))

RootsWithToken == {d \in ProjectDirs : SomeTokenOccurs(PathStr(d))}

C20_ExcludedRootExcludesAll ==
    projectDir \in RootsWithToken =>
        /\ \A n \in Nodes : Excluded(n.rel)
        /\ rootListing = {}
        /\ \A i \in 1..Len(walked) : walked[i] = AbsName[projectDir]
        /\ FileKeys = {} /\ DirectoryKeys = {}
        /\ \A i \in 1..Len(reqLog) : reqLog[i].art[1] \in {"root", "guide"}
        /\ \A i \in 1..Len(LogBlocks) : StartsWith(LogBlocks[i], Overview)
        /\ AnalysisComplete => (RootSummarySet /\ Len(LogBlocks) = 1)
        /\ pc = "guided" => guideFile.exists
        /\ pc = "aborted" => abortCause \in {"config", "auth", "transport"}

C20_Witness ==
    /\ projectDir = <<"/", "w.git">>
    /\ pc = "guided"
    /\ [rel |-> <<"readme.md">>, kind |-> "file"] \in fs
    /\ [rel |-> <<"src", "main.x">>, kind |-> "file"] \in fs
    /\ unreadable = {}
    /\ FileKeys = {} /\ DirectoryKeys = {}
    /\ RootSummaryOf(findingsFile) = "A summary."
    /\ guideFile.exists
    /\ Len(reqLog) = 2

====
